---- MODULE Spec2Model ----
(***************************************************************************)
(* A model of backend/server.py: the e-commerce API over a document store. *)
(* The collections db.users, db.carts and db.orders are sequences of       *)
(* documents in insertion order (find_one and update_one act on the first  *)
(* matching document).  Every route handler is one action; the handlers    *)
(* whose awaits are interleaving points have a stepwise form as well.      *)
(*                                                                         *)
(* Left out of the documents, because no route reads them back in a way    *)
(* that decides anything here: created_at / updated_at timestamps, the     *)
(* cart's own id, the name/price/image snapshot of a cart line, the        *)
(* shipping address.  bcrypt's salt is left out of the password hash.      *)
(***************************************************************************)
EXTENDS Integers, Sequences, FiniteSets, TLC

VARIABLES
    users,      \* db.users: sequence of user documents
    carts,      \* db.carts: sequence of cart documents
    orders,     \* db.orders: sequence of order documents
    issued,     \* the tokens create_access_token has returned so far
    now,        \* the clock (datetime.now), in ticks
    inflight,   \* the requests suspended at an await, per worker slot
    added,      \* history: per user and product, the quantities added so far
    products,   \* db.products: sequence of product documents
    last        \* the last completed request and its response

vars == <<users, carts, orders, issued, now, inflight, added, products, last>>

----------------------------------------------------------------------------
(* Bounds and input sets *)

MaxUsers == 3         \* user documents the model lets db.users hold
MaxOrders == 2        \* order documents the model lets db.orders hold
MaxTokens == 2        \* tokens the model lets the service issue
MaxQty == 4           \* largest total of the quantities held in all carts
MaxFine == 1          \* ticks modelled on each side of a clock landmark
TicksPerSecond == 2   \* clock resolution: ticks in one second
MaxInflight == 2      \* requests that may be suspended at the same time

Emails == {"a@x.io", "b@x.io"}
Passwords == {"pw1", "pw2"}
Names == {"Ann"}
Products == {"p1", "p2"}
Quantities == {1, 2}      \* CartItem.quantity is any int; these are the ones added
PaymentMethods == {"card", "crypto", "cash"}
Totals == {10}
Slots == 1..MaxInflight
UserIds == 1..MaxUsers

----------------------------------------------------------------------------
(* Program constants *)

JWT_SECRET == "secret"
JWT_ALGORITHM == "HS256"
ACCESS_TOKEN_EXPIRE_MINUTES == 1440
ORDER_LIST_CAP == 1000

\* timedelta(minutes=ACCESS_TOKEN_EXPIRE_MINUTES) in ticks
ExpireTicks == ACCESS_TOKEN_EXPIRE_MINUTES * 60 * TicksPerSecond

\* The instants the clock is observed at: the first ones, and those around
\* one validity window after them.
TimePoints ==
    (0..MaxFine) \cup ((ExpireTicks - MaxFine)..(ExpireTicks + MaxFine + 1))

\* The names the imported module jwt (PyJWT: encode(payload, key, algorithm),
\* decode(token, key, algorithms)) exports for its exceptions.
JwtExports ==
    {"PyJWTError", "InvalidTokenError", "DecodeError", "InvalidSignatureError",
     "ExpiredSignatureError", "InvalidAudienceError", "InvalidIssuerError",
     "InvalidIssuedAtError", "ImmatureSignatureError", "InvalidKeyError",
     "InvalidAlgorithmError", "MissingRequiredClaimError"}

----------------------------------------------------------------------------
(* Document store primitives *)

Min(S) == CHOOSE x \in S : \A y \in S : x <= y

\* Index of the first document of collection c with field f equal to v; 0 if none
FirstIndex(c, f, v) ==
    LET hits == {i \in 1..Len(c) : c[i][f] = v}
    IN  IF hits = {} THEN 0 ELSE Min(hits)

\* collection.find_one({f: v}): a sequence holding the first match, or <<>>
find_one(c, f, v) ==
    LET i == FirstIndex(c, f, v)
    IN  IF i = 0 THEN <<>> ELSE <<c[i]>>

\* collection.insert_one(doc)
insert_one(c, doc) == Append(c, doc)

\* carts.update_one({"user_id": uid}, {"$set": {"items": items}}): the first
\* match is updated; with no match nothing is written (no upsert).
update_one_items(c, uid, items) ==
    LET i == FirstIndex(c, "user_id", uid)
    IN  IF i = 0 THEN c ELSE [c EXCEPT ![i].items = items]

----------------------------------------------------------------------------
(* Tokens: create_access_token and get_current_user *)

\* A bearer token as the service sees it: either not a JWT at all, or a JWT
\* signed with some key, whose payload may hold "sub" (<<>> when it does not)
\* and holds "exp" in whole seconds.
Token(form, key, sub, exp) == [form |-> form, key |-> key, sub |-> sub, exp |-> exp]

NoToken == Token("none", "", <<>>, 0)

\* jwt.encode turns the datetime "exp" into whole seconds since the epoch
\* (timegm(exp.utctimetuple())): the fraction of a second is dropped.
ToSeconds(t) == t \div TicksPerSecond

create_access_token(sub, t) ==
    Token("jwt", JWT_SECRET, <<sub>>, ToSeconds(t + ExpireTicks))

\* An expiry check that still accepts the token at the instant exp
jwt_expired_strict(exp, t) == exp * TicksPerSecond < t

\* jwt.decode's expiry check at clock t: exp <= now raises ExpiredSignatureError
jwt_expired(exp, t) == exp * TicksPerSecond <= t

\* jwt.decode(token, JWT_SECRET, algorithms=[JWT_ALGORITHM]) at clock t: the
\* exception it raises ("none" when it returns the payload).  The segments
\* are decoded first, then the signature is verified, then "exp" is checked.
jwt_decode(token, t) ==
    IF token.form # "jwt" THEN "DecodeError"
    ELSE IF token.key # JWT_SECRET THEN "InvalidSignatureError"
    ELSE IF jwt_expired(token.exp, t) THEN "ExpiredSignatureError"
    ELSE "none"

AuthResult(status, detail, uid) == [status |-> status, detail |-> detail, user_id |-> uid]

\* The except clauses of get_current_user, for an exception raised in the try
\* block.  The clauses are evaluated in order: the first names
\* jwt.ExpiredSignatureError; the second names jwt.JWTError, and evaluating a
\* name the module does not export raises AttributeError, which leaves the
\* dependency as an unhandled error (HTTP 500).
except_clauses(raised) ==
    IF raised = "ExpiredSignatureError" THEN AuthResult(401, "Token expired", 0)
    ELSE IF "JWTError" \notin JwtExports
         THEN AuthResult(500, "Internal Server Error", 0)
    ELSE IF raised = "HTTPException"
         THEN AuthResult(401, "Invalid authentication", 0)
    ELSE AuthResult(401, "Invalid token", 0)

\* get_current_user(credentials) at clock t
get_current_user(token, t) ==
    LET exc == jwt_decode(token, t)
    IN  IF exc # "none" THEN except_clauses(exc)
        ELSE IF token.sub = <<>> THEN except_clauses("HTTPException")
        ELSE AuthResult(200, "", token.sub[1])

\* Tokens a client can present without having been issued them: a string that
\* is no JWT, a JWT signed with another key, and a JWT signed with the
\* service's key whose payload has no "sub".
BadTokens(t) ==
    { Token("garbage", "", <<>>, 0),
      Token("jwt", "attacker", <<1>>, ToSeconds(t + ExpireTicks)),
      Token("jwt", JWT_SECRET, <<>>, ToSeconds(t + ExpireTicks)) }

IssuedTokens == {i.tok : i \in issued}

Presentable == IssuedTokens \cup BadTokens(now)

----------------------------------------------------------------------------
(* Responses *)

NoCart == [exists |-> FALSE, items |-> <<>>]

Blank ==
    [op |-> "none", token |-> NoToken, at |-> 0, user |-> 0, status |-> 0,
     detail |-> "", email |-> "", product |-> "", qty |-> 0, oid |-> 0,
     method |-> "", total |-> 0, tx |-> "", pre |-> NoCart, read |-> NoCart,
     sent |-> <<>>,
     api_key |-> "", category |-> <<>>, tokens |-> <<>>, out |-> <<>>]

\* The response of a protected route whose dependency get_current_user failed
AuthFailure(op, tk, a) ==
    [Blank EXCEPT !.op = op, !.token = tk, !.at = now,
                  !.status = a.status, !.detail = a.detail]

\* A protected route's response skeleton once get_current_user returned uid
Called(op, tk, uid) ==
    [Blank EXCEPT !.op = op, !.token = tk, !.at = now, !.user = uid, !.status = 200]

Idle == [pc |-> "idle", email |-> "", password |-> "", name |-> ""]

Init ==
    /\ users = <<>>
    /\ carts = <<>>
    /\ orders = <<>>
    /\ issued = {}
    /\ now = 0
    /\ inflight = [s \in Slots |-> Idle]
    /\ added = [u \in UserIds |-> [p \in Products |-> <<>>]]
    /\ products = <<>>
    /\ last = Blank

----------------------------------------------------------------------------
(* Authentication routes *)

\* pwd_context.hash(password) and pwd_context.verify(password, hash)
pwd_hash(password) == [scheme |-> "bcrypt", of |-> password]
pwd_verify(password, h) == h.scheme = "bcrypt" /\ h.of = password

\* User(email, name) with a fresh uuid4 id, dumped with the password hash
user_doc(us, email, name, password) ==
    [id |-> Len(us) + 1, email |-> email, name |-> name,
     password_hash |-> pwd_hash(password)]

\* The User model returned to the client: no password hash
user_view(doc) == [id |-> doc.id, email |-> doc.email, name |-> doc.name]

\* register looking the new user up by name instead of email
register_lookup_by_name(us, email) == find_one(us, "name", email)

\* register: existing_user = await db.users.find_one({"email": email})
register_lookup(us, email) == find_one(us, "email", email)

\* register, from the insert on, for a request that found no existing user
RegisterInsert(email, password, name) ==
    LET doc == user_doc(users, email, name, password)
        tok == create_access_token(doc.id, now)
    IN  /\ users' = insert_one(users, doc)
        /\ issued' = issued \cup {[tok |-> tok, sub |-> doc.id, at |-> now]}
        /\ last' = [Blank EXCEPT !.op = "register", !.at = now, !.status = 200,
                                 !.user = doc.id, !.email = email,
                                 !.out = <<tok>>]

RegisterConflict(email) ==
    /\ last' = [Blank EXCEPT !.op = "register", !.at = now, !.status = 400,
                             !.email = email,
                             !.detail = "Email already registered"]
    /\ UNCHANGED <<users, issued>>

\* POST /auth/register, run without another request in between
Register(email, password, name) ==
    /\ IF register_lookup(users, email) # <<>>
       THEN RegisterConflict(email)
       ELSE /\ Len(users) < MaxUsers
            /\ Cardinality(issued) < MaxTokens
            /\ RegisterInsert(email, password, name)
    /\ UNCHANGED <<carts, orders, now, inflight, added, products>>

\* POST /auth/login
Login(email, password) ==
    /\ LET found == find_one(users, "email", email)
       IN  IF found = <<>> \/ ~pwd_verify(password, found[1].password_hash)
           THEN /\ last' = [Blank EXCEPT !.op = "login", !.at = now, !.status = 401,
                                         !.email = email,
                                         !.detail = "Invalid email or password"]
                /\ UNCHANGED issued
           ELSE LET tok == create_access_token(found[1].id, now)
                IN  /\ Cardinality(issued) < MaxTokens
                    /\ issued' = issued \cup {[tok |-> tok, sub |-> found[1].id, at |-> now]}
                    /\ last' = [Blank EXCEPT !.op = "login", !.at = now, !.status = 200,
                                             !.user = found[1].id, !.email = email,
                                             !.out = <<tok>>]
    /\ UNCHANGED <<users, carts, orders, now, inflight, added, products>>

\* GET /auth/me
GetMe(tk) ==
    /\ LET a == get_current_user(tk, now)
       IN  IF a.status # 200 THEN last' = AuthFailure("get_me", tk, a)
           ELSE LET found == find_one(users, "id", a.user_id)
                IN  IF found = <<>>
                    THEN last' = [Called("get_me", tk, a.user_id) EXCEPT
                                     !.status = 404, !.detail = "User not found"]
                    ELSE last' = [Called("get_me", tk, a.user_id) EXCEPT
                                     !.out = <<user_view(found[1])>>]
    /\ UNCHANGED <<users, carts, orders, issued, now, inflight, added, products>>

\* The clock moves on to a later instant
Tick ==
    /\ \E t \in TimePoints : t > now /\ now' = t
    /\ UNCHANGED <<users, carts, orders, issued, inflight, added, products, last>>

NextAuth ==
    \/ \E e \in Emails, p \in Passwords, n \in Names : Register(e, p, n)
    \/ \E e \in Emails, p \in Passwords : Login(e, p)
    \/ \E tk \in Presentable : GetMe(tk)
    \/ Tick

SpecAuth == Init /\ [][NextAuth]_vars

----------------------------------------------------------------------------
(* Cart routes *)

CartItem(pid, q) == [product_id |-> pid, quantity |-> q]

\* Cart(user_id=uid, items=items).model_dump()
cart_doc(uid, items) == [user_id |-> uid, items |-> items]

\* What db.carts.find_one({"user_id": uid}) shows of the user's cart
CartOf(cs, uid) ==
    LET found == find_one(cs, "user_id", uid)
    IN  IF found = <<>> THEN NoCart
        ELSE [exists |-> TRUE, items |-> found[1].items]

\* add_to_cart without the scan for an existing line
add_items_append(items, item) == Append(items, item)

\* add_to_cart's merge of the incoming item into an existing item list: the
\* first line with the same product id gets the quantity added, otherwise
\* the item is appended.
add_items(items, item) ==
    LET i == FirstIndex(items, "product_id", item.product_id)
    IN  IF i = 0 THEN Append(items, item)
        ELSE [items EXCEPT ![i].quantity = @ + item.quantity]

\* remove_from_cart dropping the whole list once the product is in it
remove_items_all(items, pid) ==
    IF \E i \in 1..Len(items) : items[i].product_id = pid THEN <<>> ELSE items

\* remove_from_cart's filter
remove_items(items, pid) ==
    SelectSeq(items, LAMBDA it : it.product_id # pid)

\* The carts collection after get_cart of uid: an empty cart is inserted
\* when the lookup finds none.
get_cart_store(cs, uid) ==
    IF find_one(cs, "user_id", uid) = <<>>
    THEN insert_one(cs, cart_doc(uid, <<>>))
    ELSE cs

\* The item list get_cart returns: the stored cart's, or the new cart's
get_cart_items(cs, uid) == CartOf(cs, uid).items

\* The carts collection after add_to_cart(item) of uid
add_to_cart_store(cs, uid, item) ==
    LET found == find_one(cs, "user_id", uid)
    IN  IF found = <<>>
        THEN insert_one(cs, cart_doc(uid, <<item>>))
        ELSE update_one_items(cs, uid, add_items(found[1].items, item))

\* remove_from_cart creating the cart it does not find, as get_cart does
remove_from_cart_upsert(cs, uid, pid) ==
    LET found == find_one(cs, "user_id", uid)
    IN  IF found = <<>>
        THEN [status |-> 200, detail |-> "Item removed from cart",
              carts |-> insert_one(cs, [user_id |-> uid, items |-> <<>>])]
        ELSE [status |-> 200, detail |-> "Item removed from cart",
              carts |-> update_one_items(cs, uid,
                           SelectSeq(found[1].items, LAMBDA it : it.product_id # pid))]

\* remove_from_cart(pid) of uid: the response and the carts collection
remove_from_cart_result(cs, uid, pid) ==
    LET found == find_one(cs, "user_id", uid)
    IN  IF found = <<>>
        THEN [status |-> 404, detail |-> "Cart not found", carts |-> cs]
        ELSE [status |-> 200, detail |-> "Item removed from cart",
              carts |-> update_one_items(cs, uid, remove_items(found[1].items, pid))]

\* clear_cart dropping only the first line of the list
clear_cart_first_line(cs, uid) ==
    LET found == find_one(cs, "user_id", uid)
    IN  IF found = <<>> \/ found[1].items = <<>> THEN cs
        ELSE update_one_items(cs, uid, Tail(found[1].items))

\* The carts collection after clear_cart of uid
clear_cart_store(cs, uid) == update_one_items(cs, uid, <<>>)

Abs(n) == IF n < 0 THEN -n ELSE n

RECURSIVE SumAbs(_)
SumAbs(items) ==
    IF items = <<>> THEN 0
    ELSE Abs(items[1].quantity) + SumAbs(Tail(items))

RECURSIVE Volume(_)
\* The quantities held in all carts, in absolute value
Volume(cs) == IF cs = <<>> THEN 0 ELSE SumAbs(cs[1].items) + Volume(Tail(cs))

NoAdds == [p \in Products |-> <<>>]

\* GET /cart
GetCart(tk) ==
    /\ LET a == get_current_user(tk, now)
       IN  IF a.status # 200
           THEN /\ last' = AuthFailure("get_cart", tk, a)
                /\ UNCHANGED carts
           ELSE /\ carts' = get_cart_store(carts, a.user_id)
                /\ last' = [Called("get_cart", tk, a.user_id) EXCEPT
                               !.pre = CartOf(carts, a.user_id),
                               !.out = get_cart_items(carts, a.user_id)]
    /\ UNCHANGED <<users, orders, issued, now, inflight, added, products>>

\* POST /cart/add
AddItem(tk, item) ==
    /\ Volume(carts) + Abs(item.quantity) <= MaxQty
    /\ LET a == get_current_user(tk, now)
       IN  IF a.status # 200
           THEN /\ last' = AuthFailure("add_to_cart", tk, a)
                /\ UNCHANGED <<carts, added>>
           ELSE /\ carts' = add_to_cart_store(carts, a.user_id, item)
                /\ added' = [added EXCEPT ![a.user_id][item.product_id] =
                                IF @ = <<>> THEN <<item.quantity>>
                                ELSE <<@[1] + item.quantity>>]
                /\ last' = [Called("add_to_cart", tk, a.user_id) EXCEPT
                               !.pre = CartOf(carts, a.user_id),
                               !.product = item.product_id,
                               !.qty = item.quantity,
                               !.detail = "Item added to cart"]
    /\ UNCHANGED <<users, orders, issued, now, inflight, products>>

\* DELETE /cart/remove/{product_id}
RemoveItem(tk, pid) ==
    /\ LET a == get_current_user(tk, now)
       IN  IF a.status # 200
           THEN /\ last' = AuthFailure("remove_from_cart", tk, a)
                /\ UNCHANGED <<carts, added>>
           ELSE LET r == remove_from_cart_result(carts, a.user_id, pid)
                IN  /\ carts' = r.carts
                    /\ added' = IF r.status = 200
                                THEN [added EXCEPT ![a.user_id][pid] = <<>>]
                                ELSE added
                    /\ last' = [Called("remove_from_cart", tk, a.user_id) EXCEPT
                                   !.pre = CartOf(carts, a.user_id),
                                   !.product = pid,
                                   !.status = r.status,
                                   !.detail = r.detail]
    /\ UNCHANGED <<users, orders, issued, now, inflight, products>>

\* DELETE /cart/clear
ClearCart(tk) ==
    /\ LET a == get_current_user(tk, now)
       IN  IF a.status # 200
           THEN /\ last' = AuthFailure("clear_cart", tk, a)
                /\ UNCHANGED <<carts, added>>
           ELSE /\ carts' = clear_cart_store(carts, a.user_id)
                /\ added' = [added EXCEPT ![a.user_id] = NoAdds]
                /\ last' = [Called("clear_cart", tk, a.user_id) EXCEPT
                               !.pre = CartOf(carts, a.user_id),
                               !.detail = "Cart cleared"]
    /\ UNCHANGED <<users, orders, issued, now, inflight, products>>

----------------------------------------------------------------------------
(* Order routes *)

\* create_order taking every payment as completed
payment_status_completed(method) == "completed"

\* create_order's payment status for the submitted payment method
payment_status(method) == IF method = "card" THEN "completed" ELSE "pending"

\* Order(user_id=..., items=..., ...) as create_order builds it at clock t,
\* with a fresh uuid4 id
new_order(os, uid, items, total, method, tx, t) ==
    [id |-> Len(os) + 1, user_id |-> uid, items |-> items, total |-> total,
     payment_method |-> method,
     payment_status |-> payment_status(method),
     order_status |-> "processing",
     crypto_tx_hash |-> tx,
     created_at |-> [datetime |-> t]]

\* order.model_dump() with created_at replaced by its isoformat() string
order_doc(order) == [order EXCEPT !.created_at = [iso |-> @.datetime]]

\* The stored document read back: datetime.fromisoformat on a string created_at
order_view(doc) ==
    IF "iso" \in DOMAIN doc.created_at
    THEN [doc EXCEPT !.created_at = [datetime |-> @.iso]]
    ELSE doc

\* create_order without its write to db.carts
create_order_keeps_cart(cs, uid) == cs

\* create_order's write to db.carts after the order is persisted
create_order_carts(cs, uid) == update_one_items(cs, uid, <<>>)

\* get_orders listing the collection without the user_id filter
find_orders_all(os, uid) ==
    IF Len(os) <= ORDER_LIST_CAP THEN os ELSE SubSeq(os, 1, ORDER_LIST_CAP)

\* db.orders.find({"user_id": uid}).to_list(ORDER_LIST_CAP)
find_orders(os, uid) ==
    LET mine == SelectSeq(os, LAMBDA o : o.user_id = uid)
    IN  IF Len(mine) <= ORDER_LIST_CAP THEN mine ELSE SubSeq(mine, 1, ORDER_LIST_CAP)

\* get_order's lookup by id alone
find_order_by_id(os, oid, uid) ==
    LET hits == {i \in 1..Len(os) : os[i].id = oid}
    IN  IF hits = {} THEN <<>> ELSE <<os[Min(hits)]>>

\* db.orders.find_one({"id": oid, "user_id": uid})
find_order(os, oid, uid) ==
    LET hits == {i \in 1..Len(os) : os[i].id = oid /\ os[i].user_id = uid}
    IN  IF hits = {} THEN <<>> ELSE <<os[Min(hits)]>>

\* get_order's response for the lookup's result
get_order_result(found) ==
    IF found = <<>>
    THEN [status |-> 404, detail |-> "Order not found", out |-> <<>>]
    ELSE [status |-> 200, detail |-> "", out |-> <<order_view(found[1])>>]

\* POST /orders
CreateOrder(tk, items, total, method, tx) ==
    /\ Len(orders) < MaxOrders
    /\ LET a == get_current_user(tk, now)
       IN  IF a.status # 200
           THEN /\ last' = AuthFailure("create_order", tk, a)
                /\ UNCHANGED <<carts, orders, added>>
           ELSE LET order == new_order(orders, a.user_id, items, total, method, tx, now)
                IN  /\ orders' = insert_one(orders, order_doc(order))
                    /\ carts' = create_order_carts(carts, a.user_id)
                    /\ added' = [added EXCEPT ![a.user_id] = NoAdds]
                    /\ last' = [Called("create_order", tk, a.user_id) EXCEPT
                                   !.pre = CartOf(carts, a.user_id),
                                   !.oid = order.id,
                                   !.sent = items,
                                   !.method = method,
                                   !.total = total,
                                   !.tx = tx,
                                   !.out = <<order>>]
    /\ UNCHANGED <<users, issued, now, inflight, products>>

\* GET /orders
GetOrders(tk) ==
    /\ LET a == get_current_user(tk, now)
       IN  IF a.status # 200
           THEN last' = AuthFailure("get_orders", tk, a)
           ELSE last' = [Called("get_orders", tk, a.user_id) EXCEPT
                            !.out = [i \in 1..Len(find_orders(orders, a.user_id)) |->
                                        order_view(find_orders(orders, a.user_id)[i])]]
    /\ UNCHANGED <<users, carts, orders, issued, now, inflight, added, products>>

\* GET /orders/{order_id}
GetOrder(tk, oid) ==
    /\ LET a == get_current_user(tk, now)
       IN  IF a.status # 200
           THEN last' = AuthFailure("get_order", tk, a)
           ELSE LET r == get_order_result(find_order(orders, oid, a.user_id))
                IN  last' = [Called("get_order", tk, a.user_id) EXCEPT
                                !.oid = oid, !.status = r.status,
                                !.detail = r.detail, !.out = r.out]
    /\ UNCHANGED <<users, carts, orders, issued, now, inflight, added, products>>

\* The state after two clients have registered, one after the other, at
\* the first instant of the clock (a state SpecAuth reaches from Init by two
\* Register steps): what the cart and order routes need to be called with
\* valid tokens.
InitShop ==
    LET u1 == user_doc(<<>>, "a@x.io", "Ann", "pw1")
        u2 == user_doc(<<u1>>, "b@x.io", "Ann", "pw1")
        t1 == create_access_token(u1.id, 0)
        t2 == create_access_token(u2.id, 0)
    IN  /\ users = <<u1, u2>>
        /\ carts = <<>>
        /\ orders = <<>>
        /\ issued = {[tok |-> t1, sub |-> u1.id, at |-> 0],
                     [tok |-> t2, sub |-> u2.id, at |-> 0]}
        /\ now = 0
        /\ inflight = [s \in Slots |-> Idle]
        /\ added = [u \in UserIds |-> NoAdds]
        /\ products = <<>>
        /\ last = [Blank EXCEPT !.op = "register", !.status = 200, !.user = u2.id,
                                !.email = u2.email, !.out = <<t2>>]

\* The item lists a client submits with an order
OrderItemLists == {<<>>, <<CartItem("p1", 1)>>}

\* The cart routes, and create_order for its write to the cart, called by
\* the registered clients with their tokens, every request run to completion
\* before the next starts.
NextCart ==
    \/ \E tk \in IssuedTokens : GetCart(tk)
    \/ \E tk \in IssuedTokens, pid \in Products, q \in Quantities :
          AddItem(tk, CartItem(pid, q))
    \/ \E tk \in IssuedTokens, pid \in Products : RemoveItem(tk, pid)
    \/ \E tk \in IssuedTokens : ClearCart(tk)
    \/ \E tk \in IssuedTokens :
          CreateOrder(tk, <<CartItem("p1", 1)>>, 10, "card", "None")

SpecCart == InitShop /\ [][NextCart]_vars

\* The order routes, with add_to_cart (into empty carts) to fill the cart
\* that create_order empties, called by the registered clients with their tokens, every
\* request run to completion before the next starts.
NextOrders ==
    \/ \E tk \in IssuedTokens : Volume(carts) = 0 /\ AddItem(tk, CartItem("p1", 1))
    \/ \E tk \in IssuedTokens, items \in OrderItemLists, total \in Totals,
          m \in PaymentMethods :
          CreateOrder(tk, items, total, m, IF m = "crypto" THEN "0xabc" ELSE "None")
    \/ \E tk \in IssuedTokens : GetOrders(tk)
    \/ \E tk \in IssuedTokens, oid \in 1..(MaxOrders + 1) : GetOrder(tk, oid)

SpecOrders == InitShop /\ [][NextOrders]_vars

\* Every protected route called with every token a client can present: the
\* issued ones and the ones that fail verification.
NextGuard ==
    \/ \E tk \in Presentable : GetMe(tk)
    \/ \E tk \in Presentable : GetCart(tk)
    \/ \E tk \in Presentable : AddItem(tk, CartItem("p1", 1))
    \/ \E tk \in Presentable : RemoveItem(tk, "p1")
    \/ \E tk \in Presentable : ClearCart(tk)
    \/ \E tk \in Presentable :
          CreateOrder(tk, <<CartItem("p1", 1)>>, 10, "card", "None")
    \/ \E tk \in Presentable : GetOrders(tk)
    \/ \E tk \in Presentable, oid \in 1..(MaxOrders + 1) : GetOrder(tk, oid)

SpecGuard == InitShop /\ [][NextGuard]_vars

----------------------------------------------------------------------------
(* register with its awaits as interleaving points: between the lookup
   (await db.users.find_one) and the insert (await db.users.insert_one)
   other requests run. *)

Pending == {s \in Slots : inflight[s].pc # "idle"}

\* register up to its insert: the lookup, and the 400 response when it finds
\* a user; otherwise the request is suspended before insert_one.
RegisterLookup(s, email, password, name) ==
    /\ inflight[s].pc = "idle"
    /\ IF register_lookup(users, email) # <<>>
       THEN /\ RegisterConflict(email)
            /\ UNCHANGED inflight
       ELSE /\ Len(users) + Cardinality(Pending) < MaxUsers
            /\ Cardinality(issued) + Cardinality(Pending) < MaxTokens
            /\ inflight' = [inflight EXCEPT ![s] =
                               [pc |-> "insert", email |-> email,
                                password |-> password, name |-> name]]
            /\ UNCHANGED <<users, issued, last>>
    /\ UNCHANGED <<carts, orders, now, added, products>>

\* register from its insert on
RegisterFinish(s) ==
    /\ inflight[s].pc = "insert"
    /\ RegisterInsert(inflight[s].email, inflight[s].password, inflight[s].name)
    /\ inflight' = [inflight EXCEPT ![s] = Idle]
    /\ UNCHANGED <<carts, orders, now, added, products>>

NextRace ==
    \/ \E s \in Slots, e \in Emails, p \in Passwords, n \in Names :
          RegisterLookup(s, e, p, n)
    \/ \E s \in Slots : RegisterFinish(s)
    \/ \E e \in Emails, p \in Passwords : Login(e, p)

SpecRace == Init /\ [][NextRace]_vars

----------------------------------------------------------------------------
(* Cart claims, under SpecCart *)

LinesOf(items, pid) == SelectSeq(items, LAMBDA it : it.product_id = pid)

\* C1: with a user's requests run one after another, the cart holds exactly
\* one line per product id added since the product was last removed (or the
\* cart cleared, or an order created), and no other line, and that line's
\* quantity is the sum of the quantities of those add_to_cart calls.
C1_QuantityAccumulates ==
    \A u \in UserIds : \A p \in Products :
        LET lines == LinesOf(CartOf(carts, u).items, p)
        IN  IF added[u][p] = <<>>
            THEN lines = <<>>
            ELSE Len(lines) = 1 /\ lines[1].quantity = added[u][p][1]

\* An add_to_cart that found its product in a cart of two lines and added
\* to that line.
C1_Witness ==
    /\ last.op = "add_to_cart"
    /\ last.status = 200
    /\ LinesOf(last.pre.items, last.product) # <<>>
    /\ Len(CartOf(carts, last.user).items) = 2
    /\ LinesOf(CartOf(carts, last.user).items, last.product)[1].quantity
          = LinesOf(last.pre.items, last.product)[1].quantity + last.qty

\* C2: once create_order of user u has completed, the cart of u has an empty
\* item list (get_cart of u returns no items), whatever the cart was before
\* and whatever item list was submitted.
C2_OrderEmptiesCart ==
    (last.op = "create_order" /\ last.status = 200)
        => get_cart_items(carts, last.user) = <<>>

\* A create_order on a cart of two lines, with a submitted item list that is
\* not the cart's.
C2_Witness ==
    /\ last.op = "create_order"
    /\ last.status = 200
    /\ last.pre.exists
    /\ Len(last.pre.items) = 2
    /\ last.sent # last.pre.items

\* C9: when a cart exists for u, remove_from_cart(u, p) succeeds and leaves
\* the item list equal to the prior list without the lines of product p,
\* the other lines in their order and with their quantities; when no line
\* has product p, the list is unchanged.
C9_RemoveFilters ==
    (last.op = "remove_from_cart" /\ last.pre.exists) =>
        LET after == CartOf(carts, last.user)
            keep == {i \in 1..Len(last.pre.items) :
                        last.pre.items[i].product_id # last.product}
        IN  /\ last.status = 200
            /\ after.exists
            /\ after.items = SelectSeq(last.pre.items,
                                 LAMBDA it : it.product_id # last.product)
            /\ (keep = 1..Len(last.pre.items) => after.items = last.pre.items)

\* A remove_from_cart that took one line out of a cart of two.
C9_Witness ==
    /\ last.op = "remove_from_cart"
    /\ last.status = 200
    /\ Len(last.pre.items) = 2
    /\ Len(CartOf(carts, last.user).items) = 1

\* A remove_from_cart of a product that is not in the (non-empty) cart.
C9_WitnessAbsentProduct ==
    /\ last.op = "remove_from_cart"
    /\ last.status = 200
    /\ last.pre.items # <<>>
    /\ LinesOf(last.pre.items, last.product) = <<>>

\* C10: when no cart exists for u, remove_from_cart of u fails with 404,
\* creates no cart and changes no stored document; get_cart, add_to_cart
\* and clear_cart of a user without a cart do not fail with 404.
C10_RemoveWithoutCart ==
    [][ /\ (last'.op = "remove_from_cart" /\ ~last'.pre.exists) =>
              /\ last'.status = 404
              /\ last'.detail = "Cart not found"
              /\ UNCHANGED <<users, carts, orders>>
        /\ (last'.op \in {"get_cart", "add_to_cart", "clear_cart"}
               /\ ~last'.pre.exists) => last'.status = 200
      ]_vars

\* A remove_from_cart refused for a user without a cart, while another
\* user's cart is stored.
C10_Witness ==
    /\ last.op = "remove_from_cart"
    /\ last.status = 404
    /\ ~CartOf(carts, last.user).exists
    /\ carts # <<>>

\* An add_to_cart and a clear_cart answered for a user without a cart.
C10_WitnessOthers ==
    /\ last.op \in {"add_to_cart", "clear_cart"}
    /\ ~last.pre.exists
    /\ last.status = 200

----------------------------------------------------------------------------
(* Order claims, under SpecOrders *)

\* The statuses C3 states for a payment method

StatusesFor(method) ==
    [payment |-> IF method = "card" THEN "completed" ELSE "pending",
     order |-> "processing"]

\* C3: every order create_order produces has order status "processing" and
\* payment status "completed" exactly when the submitted payment method is
\* "card", "pending" for every other method; the returned order and the
\* stored order carry the same statuses.
C3_OrderStatuses ==
    /\ \A i \in 1..Len(orders) :
          /\ orders[i].order_status = StatusesFor(orders[i].payment_method).order
          /\ orders[i].payment_status = StatusesFor(orders[i].payment_method).payment
    /\ (last.op = "create_order" /\ last.status = 200) =>
          LET returned == last.out[1]
              stored == {i \in 1..Len(orders) : orders[i].id = returned.id}
          IN  /\ returned.payment_method = last.method
              /\ returned.order_status = StatusesFor(last.method).order
              /\ returned.payment_status = StatusesFor(last.method).payment
              /\ Cardinality(stored) = 1
              /\ \A i \in stored :
                    /\ orders[i].payment_method = last.method
                    /\ orders[i].order_status = returned.order_status
                    /\ orders[i].payment_status = returned.payment_status

\* A create_order paid with "crypto" after one paid with "card".
C3_Witness ==
    /\ last.op = "create_order"
    /\ last.status = 200
    /\ last.method = "crypto"
    /\ last.out[1].payment_status = "pending"
    /\ \E i \in 1..Len(orders) : orders[i].payment_status = "completed"

\* A create_order paid with a method that is neither "card" nor "crypto".
C3_WitnessOtherMethod ==
    /\ last.op = "create_order"
    /\ last.status = 200
    /\ last.method = "cash"
    /\ last.out[1].payment_status = "pending"

\* C8: get_order(u, id) returns an order only if the order with that id
\* exists and is owned by u; otherwise it fails with 404, and with the same
\* response whether no order has the id or the order is another user's.
C8_OrderOwnership ==
    (last.op = "get_order" /\ last.user # 0) =>
        LET owned == {i \in 1..Len(orders) :
                         orders[i].id = last.oid /\ orders[i].user_id = last.user}
        IN  IF owned # {}
            THEN /\ last.status = 200
                 /\ Len(last.out) = 1
                 /\ last.out[1].id = last.oid
                 /\ last.out[1].user_id = last.user
                 /\ \E i \in owned : order_view(orders[i]) = last.out[1]
            ELSE /\ last.status = 404
                 /\ last.detail = "Order not found"
                 /\ last.out = <<>>

\* A get_order for the id of another user's order, answered 404.
C8_Witness ==
    /\ last.op = "get_order"
    /\ last.status = 404
    /\ \E i \in 1..Len(orders) :
          orders[i].id = last.oid /\ orders[i].user_id # last.user

\* A get_order for the caller's own order, answered with it.
C8_WitnessOwn ==
    /\ last.op = "get_order"
    /\ last.status = 200
    /\ Len(orders) = 2

----------------------------------------------------------------------------
(* Authentication claims *)

\* The stored users with the given email (vocabulary of C4)

WithEmail(us, email) == {i \in 1..Len(us) : us[i].email = email}

\* C4 (SpecAuth): register with an email no stored user has succeeds and
\* stores exactly one new user with that email; register with an email a
\* stored user has fails with 400, returns no token and leaves the stored
\* users unchanged.
C4_RegisterOnce ==
    [][ (last'.op = "register" /\ now' = now) =>
            IF WithEmail(users, last'.email) = {}
            THEN /\ last'.status = 200
                 /\ Len(last'.out) = 1
                 /\ Len(users') = Len(users) + 1
                 /\ SubSeq(users', 1, Len(users)) = users
                 /\ users'[Len(users')].email = last'.email
                 /\ Cardinality(WithEmail(users', last'.email)) = 1
            ELSE /\ last'.status = 400
                 /\ last'.detail = "Email already registered"
                 /\ last'.out = <<>>
                 /\ users' = users
                 /\ issued' = issued
      ]_vars

\* A register refused for an email that was registered before, with two
\* users stored.
C4_Witness ==
    /\ last.op = "register"
    /\ last.status = 400
    /\ Cardinality(WithEmail(users, last.email)) = 1
    /\ Len(users) = 2

\* C5 (SpecRace): no two stored users have the same email, also when two
\* register requests for one email both run their lookup before either
\* runs its insert.
C5_UniqueEmails ==
    \A i, j \in 1..Len(users) : i # j => users[i].email # users[j].email

\* The instant from which on jwt.decode rejects the token issued at clock t
ExpiryInstant(t) == ToSeconds(t + ExpireTicks) * TicksPerSecond

\* C6 as claimed (SpecAuth): a token issued for user u at clock t is accepted,
\* yielding u, at every instant before t + 24 hours, and rejected with 401 at
\* every instant after t + 24 hours.
C6_Claimed ==
    \A i \in issued :
        (last.op = "get_me" /\ last.token = i.tok) =>
            /\ last.at < i.at + ExpireTicks =>
                  (last.status = 200 /\ last.user = i.sub)
            /\ last.at > i.at + ExpireTicks => last.status = 401

\* C6 as amended (SpecAuth): the token's expiry is t + 24 hours rounded down
\* to the whole second.  A token issued for user u at clock t is accepted,
\* yielding u, at every instant before that second starts (so at every
\* instant up to t + 24 hours - 1 second), and rejected with 401 from that
\* instant on (so at every instant from t + 24 hours).
C6_ValidUntilExpirySecond ==
    \A i \in issued :
        (last.op = "get_me" /\ last.token = i.tok) =>
            /\ ExpiryInstant(i.at) > i.at + ExpireTicks - TicksPerSecond
            /\ ExpiryInstant(i.at) <= i.at + ExpireTicks
            /\ last.at < ExpiryInstant(i.at) =>
                  /\ last.status = 200
                  /\ last.user = i.sub
                  /\ last.out[1].id = i.sub
            /\ last.at >= ExpiryInstant(i.at) =>
                  /\ last.status = 401
                  /\ last.detail = "Token expired"
                  /\ last.user = 0

\* A token issued in the middle of a second and presented less than 24
\* hours later, in the second it expires in: rejected.
C6_Witness ==
    \E i \in issued :
        /\ last.op = "get_me"
        /\ last.token = i.tok
        /\ i.at % TicksPerSecond # 0
        /\ last.at < i.at + ExpireTicks
        /\ last.status = 401

\* A token accepted just before its expiry second, a day after it was issued.
C6_WitnessAccepted ==
    \E i \in issued :
        /\ last.op = "get_me"
        /\ last.token = i.tok
        /\ last.at = ExpiryInstant(i.at) - 1
        /\ last.status = 200

\* The token fails verification for a reason other than expiry
FailsNotExpired(tk, t) ==
    \/ tk.form # "jwt"
    \/ tk.key # JWT_SECRET
    \/ (~jwt_expired(tk.exp, t) /\ tk.sub = <<>>)

\* C7 (SpecGuard): a protected route called with a token that fails
\* verification for a reason other than expiry answers 401 and no other
\* error, and does not run: users, carts and orders are unchanged.
C7_InvalidTokenUnauthorized ==
    [][ (last' # last /\ last'.op # "register"
            /\ FailsNotExpired(last'.token, last'.at)) =>
            /\ last'.status = 401
            /\ UNCHANGED <<users, carts, orders>>
      ]_vars

\* The part of C7 the code keeps: the route does not run.
C7_RouteDoesNotRun ==
    [][ (last' # last /\ last'.op # "register"
            /\ FailsNotExpired(last'.token, last'.at)) =>
            /\ last'.user = 0
            /\ last'.status \notin {200, 404}
            /\ UNCHANGED <<users, carts, orders>>
      ]_vars

----------------------------------------------------------------------------
(* More cart claims, under SpecCart *)

\* C11: clear_cart of u answers 200 whether the cart of u is absent, empty
\* or not, and a get_cart of u after it returns an empty item list as long
\* as u has added nothing since: the cart it leaves shows no items, and
\* every get_cart of a user with no add_to_cart since the last clear_cart
\* returns none.
C11_ClearThenGetEmpty ==
    /\ (last.op = "clear_cart" /\ last.user # 0) =>
          /\ last.status = 200
          /\ get_cart_items(carts, last.user) = <<>>
    /\ (last.op = "get_cart" /\ last.user # 0 /\ added[last.user] = NoAdds) =>
          /\ last.status = 200
          /\ last.out = <<>>

\* A clear_cart of a cart of two lines.
C11_Witness ==
    /\ last.op = "clear_cart"
    /\ last.status = 200
    /\ Len(last.pre.items) = 2
    /\ CartOf(carts, last.user).exists

\* A clear_cart for a user without a cart, and one for an empty cart.
C11_WitnessAbsent ==
    /\ last.op = "clear_cart"
    /\ last.status = 200
    /\ ~last.pre.exists

C11_WitnessEmpty ==
    /\ last.op = "clear_cart"
    /\ last.status = 200
    /\ last.pre.exists
    /\ last.pre.items = <<>>

----------------------------------------------------------------------------
(* More order claims, under SpecOrders *)

\* The fields create_order fixes for an order, as a listed order o shows them
\* and as the stored document d holds them
SameOrder(o, d) ==
    /\ o.id = d.id
    /\ o.user_id = d.user_id
    /\ o.items = d.items
    /\ o.total = d.total
    /\ o.payment_method = d.payment_method
    /\ o.payment_status = d.payment_status
    /\ o.order_status = d.order_status
    /\ o.crypto_tx_hash = d.crypto_tx_hash

\* C12: no step modifies or deletes a stored order; the only step that adds
\* one is a create_order, which appends one order of the caller with the
\* items, total, payment method and transaction hash submitted and the
\* statuses of that method; and get_orders of u returns, below the listing
\* cap, exactly the stored orders of u, each once, with those fields, and no
\* order of another user.
C12_OrdersKeptAndListed ==
    [][/\ Len(orders') >= Len(orders)
       /\ SubSeq(orders', 1, Len(orders)) = orders
       /\ Len(orders') > Len(orders) =>
             LET d == orders'[Len(orders')]
             IN  /\ Len(orders') = Len(orders) + 1
                 /\ last'.op = "create_order"
                 /\ last'.status = 200
                 /\ d.user_id = last'.user
                 /\ d.items = last'.sent
                 /\ d.total = last'.total
                 /\ d.payment_method = last'.method
                 /\ d.crypto_tx_hash = last'.tx
                 /\ d.payment_status = StatusesFor(last'.method).payment
                 /\ d.order_status = StatusesFor(last'.method).order
                 /\ \A i \in 1..Len(orders) : orders[i].id # d.id
       /\ (last'.op = "get_orders" /\ last'.user # 0) =>
             LET mine == {i \in 1..Len(orders') : orders'[i].user_id = last'.user}
                 listed == last'.out
             IN  /\ last'.status = 200
                 /\ Cardinality(mine) <= ORDER_LIST_CAP
                 /\ Len(listed) = Cardinality(mine)
                 /\ \A k \in 1..Len(listed) : listed[k].user_id = last'.user
                 /\ \A i \in mine :
                       \E k \in 1..Len(listed) : SameOrder(listed[k], orders'[i])
      ]_vars

\* A get_orders that lists the caller's one order while the collection also
\* holds an order of the other user.
C12_Witness ==
    /\ last.op = "get_orders"
    /\ last.status = 200
    /\ Len(last.out) = 1
    /\ Len(orders) = 2
    /\ \E i \in 1..Len(orders) : orders[i].user_id # last.user

\* A get_orders for a user who has created no order while another has.
C12_WitnessNone ==
    /\ last.op = "get_orders"
    /\ last.status = 200
    /\ last.out = <<>>
    /\ orders # <<>>

----------------------------------------------------------------------------
(* The catalog: seed_data and get_ai_recommendations.  A string the routes
   take apart (a product name, the model's reply) is the sequence of its
   characters. *)

\* "CryptoPhone Pro X"
NAME_CryptoPhoneProX ==
    <<"C", "r", "y", "p", "t", "o", "P", "h", "o", "n", "e", " ", "P", "r",
      "o", " ", "X">>

\* "BlockChain Laptop Elite"
NAME_BlockChainLaptopElite ==
    <<"B", "l", "o", "c", "k", "C", "h", "a", "i", "n", " ", "L", "a", "p",
      "t", "o", "p", " ", "E", "l", "i", "t", "e">>

\* "MetaVision AR Glass"
NAME_MetaVisionARGlass ==
    <<"M", "e", "t", "a", "V", "i", "s", "i", "o", "n", " ", "A", "R", " ",
      "G", "l", "a", "s", "s">>

\* "Web3 Camera 4K"
NAME_Web3Camera4K ==
    <<"W", "e", "b", "3", " ", "C", "a", "m", "e", "r", "a", " ", "4", "K">>

\* "SecurePhone Mini"
NAME_SecurePhoneMini ==
    <<"S", "e", "c", "u", "r", "e", "P", "h", "o", "n", "e", " ", "M", "i",
      "n", "i">>

\* "CryptoBook Air"
NAME_CryptoBookAir ==
    <<"C", "r", "y", "p", "t", "o", "B", "o", "o", "k", " ", "A", "i", "r">>

\* "DecentralVision Pro"
NAME_DecentralVisionPro ==
    <<"D", "e", "c", "e", "n", "t", "r", "a", "l", "V", "i", "s", "i", "o",
      "n", " ", "P", "r", "o">>

\* "BlockCam Studio"
NAME_BlockCamStudio ==
    <<"B", "l", "o", "c", "k", "C", "a", "m", " ", "S", "t", "u", "d", "i",
      "o">>

\* The product list seed_data builds, before its uuid4 ids are drawn
seed_products ==
    <<[id |-> 0, name |-> NAME_CryptoPhoneProX, category |-> "phones"],
      [id |-> 0, name |-> NAME_BlockChainLaptopElite, category |-> "laptops"],
      [id |-> 0, name |-> NAME_MetaVisionARGlass, category |-> "metaglass"],
      [id |-> 0, name |-> NAME_Web3Camera4K, category |-> "cameras"],
      [id |-> 0, name |-> NAME_SecurePhoneMini, category |-> "phones"],
      [id |-> 0, name |-> NAME_CryptoBookAir, category |-> "laptops"],
      [id |-> 0, name |-> NAME_DecentralVisionPro, category |-> "metaglass"],
      [id |-> 0, name |-> NAME_BlockCamStudio, category |-> "cameras"]>>

\* The number of entries of that list
SEED_COUNT == 8

\* seed_data without its count_documents check
seed_always(ps) ==
    ps \o [i \in 1..Len(seed_products) |->
              [seed_products[i] EXCEPT !.id = Len(ps) + i]]

\* db.products after seed_data: insert_many of the list when
\* count_documents({}) is 0, nothing otherwise
seed_store(ps) ==
    IF Len(ps) > 0
    THEN ps
    ELSE ps \o [i \in 1..Len(seed_products) |->
                   [seed_products[i] EXCEPT !.id = Len(ps) + i]]

\* POST /seed, run from its count to its insert without another request in
\* between
Seed ==
    /\ products' = seed_store(products)
    /\ last' = [Blank EXCEPT !.op = "seed", !.at = now, !.status = 200,
                             !.detail = IF Len(products) > 0
                                        THEN "Database already seeded"
                                        ELSE "Seeded products",
                             !.out = IF Len(products) > 0
                                     THEN <<>>
                                     ELSE <<Len(seed_products)>>]
    /\ UNCHANGED <<users, carts, orders, issued, now, inflight, added>>

\* The characters str.strip() removes
WHITESPACE == {" ", "\n", "\t"}

\* to_list(100) of get_ai_recommendations and the slice [:4] of its result
RECOMMEND_LOAD_CAP == 100
RECOMMEND_MAX == 4

\* response.split(sep): the pieces between the separators, at least one
RECURSIVE split(_, _)
split(s, sep) ==
    IF \A i \in 1..Len(s) : s[i] # sep
    THEN <<s>>
    ELSE LET first == CHOOSE i \in 1..Len(s) :
                          /\ s[i] = sep
                          /\ \A j \in 1..(i - 1) : s[j] # sep
         IN  <<SubSeq(s, 1, first - 1)>>
             \o split(SubSeq(s, first + 1, Len(s)), sep)

\* name.lstrip(): leading whitespace removed only
lstrip(s) ==
    IF \A i \in 1..Len(s) : s[i] \in WHITESPACE
    THEN <<>>
    ELSE LET first == CHOOSE i \in 1..Len(s) :
                          /\ s[i] \notin WHITESPACE
                          /\ \A j \in 1..(i - 1) : s[j] \in WHITESPACE
         IN  SubSeq(s, first, Len(s))

\* name.strip(): leading and trailing whitespace removed
strip(s) ==
    IF \A i \in 1..Len(s) : s[i] \in WHITESPACE
    THEN <<>>
    ELSE LET first == CHOOSE i \in 1..Len(s) :
                          /\ s[i] \notin WHITESPACE
                          /\ \A j \in 1..(i - 1) : s[j] \in WHITESPACE
             final == CHOOSE i \in 1..Len(s) :
                          /\ s[i] \notin WHITESPACE
                          /\ \A j \in (i + 1)..Len(s) : s[j] \in WHITESPACE
         IN  SubSeq(s, first, final)

\* [name.strip() for name in response.split(',')]
recommended_names(response) ==
    LET pieces == split(response, ",")
    IN  [i \in 1..Len(pieces) |-> strip(pieces[i])]

\* db.products.find(query).to_list(cap), query filtering on the category
\* unless it is None (<<>>) or "all"
find_products(ps, category, cap) ==
    LET hit == IF category # <<>> /\ category[1] # "all"
               THEN SelectSeq(ps, LAMBDA p : p.category = category[1])
               ELSE ps
    IN  IF Len(hit) <= cap THEN hit ELSE SubSeq(hit, 1, cap)

\* [p for p in products if p['name'] in recommended_names]
recommended_products(ps, names) ==
    SelectSeq(ps, LAMBDA p : \E i \in 1..Len(names) : names[i] = p.name)

\* seq[:n]
slice_to(seq, n) == IF Len(seq) <= n THEN seq ELSE SubSeq(seq, 1, n)

\* The body of the response for the model's reply
recommend_result(ps, category, response) ==
    LET loaded == find_products(ps, category, RECOMMEND_LOAD_CAP)
        chosen == recommended_products(loaded, recommended_names(response))
    IN  [recommendations |-> slice_to(chosen, RECOMMEND_MAX),
         explanation |-> response]

\* One comma-separated piece of a reply: a text with whitespace around it
Piece(left, core, right) == [left |-> left, core |-> core, right |-> right]

\* A name as a model writes it in lower case
lowercase(s) ==
    [i \in 1..Len(s) |->
        CASE s[i] = "C" -> "c" [] s[i] = "P" -> "p" [] s[i] = "X" -> "x"
          [] OTHER -> s[i]]

\* The pieces the replies are made of: five product names, bare or with
\* the blanks and line ends models put around them, and a name in the
\* wrong case
PIECES ==
    <<Piece(<<>>, NAME_CryptoPhoneProX, <<>>),
      Piece(<<" ">>, NAME_BlockChainLaptopElite, <<>>),
      Piece(<<" ">>, NAME_SecurePhoneMini, <<"\n">>),
      Piece(<<>>, NAME_MetaVisionARGlass, <<>>),
      Piece(<<" ">>, NAME_Web3Camera4K, <<" ", " ">>),
      Piece(<<" ">>, lowercase(NAME_CryptoPhoneProX), <<>>)>>

\* The reply text: the pieces joined by commas
RECURSIVE render(_)
render(pieces) ==
    IF pieces = <<>> THEN <<>>
    ELSE LET head == pieces[1].left \o pieces[1].core \o pieces[1].right
         IN  IF Len(pieces) = 1 THEN head
             ELSE head \o <<",">> \o render(Tail(pieces))

\* Replies of up to MaxReplyAnyOrder pieces in every order and with
\* repetitions, and longer ones, up to MaxReplyNames pieces, in the order
\* of PIECES
MaxReplyAnyOrder == 2
MaxReplyNames == 5

RECURSIVE Ascending(_)
Ascending(S) == IF S = {} THEN <<>> ELSE <<Min(S)>> \o Ascending(S \ {Min(S)})

ReplyShapes ==
    UNION {[1..n -> 1..Len(PIECES)] : n \in 0..MaxReplyAnyOrder}
    \cup {Ascending(S) : S \in {T \in SUBSET (1..Len(PIECES)) :
                                   /\ Cardinality(T) > MaxReplyAnyOrder
                                   /\ Cardinality(T) <= MaxReplyNames}}

\* EMERGENT_LLM_KEY in the environment: unset, or set
ApiKeys == {"", "key"}

\* AIRecommendationRequest.category: None, "all", or a category
Categories == {<<>>, <<"all">>, <<"phones">>}

\* POST /ai/recommend.  pieces is the reply the model gives when asked;
\* replied is FALSE when chat.send_message raises instead.  Every exception
\* in the body, the HTTPException for the missing key included, leaves
\* through the except clause as a 500.
Recommend(api_key, category, pieces, replied) ==
    /\ IF api_key = ""
       THEN last' = [Blank EXCEPT !.op = "recommend", !.at = now,
                                  !.category = category, !.status = 500,
                                  !.detail = "AI service error"]
       ELSE IF ~replied
       THEN last' = [Blank EXCEPT !.op = "recommend", !.at = now,
                                  !.api_key = api_key,
                                  !.category = category, !.status = 500,
                                  !.detail = "AI service error"]
       ELSE last' = [Blank EXCEPT !.op = "recommend", !.at = now,
                                  !.api_key = api_key,
                                  !.category = category, !.status = 200,
                                  !.tokens = pieces,
                                  !.sent = <<render(pieces)>>,
                                  !.out = <<recommend_result(products, category,
                                                             render(pieces))>>]
    /\ UNCHANGED <<users, carts, orders, issued, now, inflight, added, products>>

\* The catalog routes, every request run to completion before the next
\* starts: seed_data; get_ai_recommendations failing, for want of the key
\* or because the model call raises; and get_ai_recommendations with the
\* key set and a reply.
NextCatalog ==
    \/ Seed
    \/ \E key \in ApiKeys, category \in Categories :
          Recommend(key, category, <<>>, FALSE)
    \/ \E category \in Categories, shape \in ReplyShapes :
          Recommend("key", category, [i \in 1..Len(shape) |-> PIECES[shape[i]]],
                    TRUE)

SpecCatalog == Init /\ [][NextCatalog]_vars

----------------------------------------------------------------------------
(* Catalog claims, under SpecCatalog *)

\* The documents of ps, without their ids
Unkeyed(ps) == [i \in 1..Len(ps) |-> [ps[i] EXCEPT !.id = 0]]

\* C13: with the key set and the model replying r, get_ai_recommendations
\* answers 200 with r itself as the explanation and, as recommendations,
\* products of the loaded set (the catalog filtered by the request's
\* category) whose name is, case-sensitively, the text of one of the
\* comma-separated pieces of r without its surrounding whitespace: no
\* product twice, and as many as there are such products up to four.  So a
\* reply naming exactly two loaded products returns exactly those two, and a
\* reply naming none returns an empty list.
C13_RecommendMatches ==
    (last.op = "recommend" /\ last.api_key # "" /\ last.sent # <<>>) =>
        LET named == {last.tokens[i].core : i \in 1..Len(last.tokens)}
            loaded == {i \in 1..Len(products) :
                          \/ last.category = <<>>
                          \/ last.category = <<"all">>
                          \/ <<products[i].category>> = last.category}
            matched == {i \in loaded : products[i].name \in named}
            recs == last.out[1].recommendations
        IN  /\ last.status = 200
            /\ last.out[1].explanation = last.sent[1]
            /\ Len(recs) <= RECOMMEND_MAX
            /\ Len(recs) = IF Cardinality(matched) <= RECOMMEND_MAX
                           THEN Cardinality(matched) ELSE RECOMMEND_MAX
            /\ \A k \in 1..Len(recs) : \E i \in matched : recs[k] = products[i]
            /\ \A k, l \in 1..Len(recs) : recs[k].id = recs[l].id => k = l
            /\ Cardinality(matched) = 2 =>
                  {recs[k] : k \in 1..Len(recs)} = {products[i] : i \in matched}
            /\ matched = {} => recs = <<>>

\* A reply naming exactly two products of the catalog, one of them written
\* with whitespace around it, among pieces that name none.
C13_Witness ==
    /\ last.op = "recommend"
    /\ last.status = 200
    /\ Len(last.out[1].recommendations) = 2
    /\ Len(last.tokens) = 2
    /\ \E i \in 1..Len(last.tokens) :
          last.tokens[i].left # <<>> /\ last.tokens[i].right # <<>>

\* A reply naming five products of the catalog: four are returned.
C13_WitnessCapped ==
    /\ last.op = "recommend"
    /\ last.status = 200
    /\ last.category = <<>>
    /\ Cardinality({last.tokens[i].core : i \in 1..Len(last.tokens)}
                   \cap {products[i].name : i \in 1..Len(products)}) = 5
    /\ Len(last.out[1].recommendations) = RECOMMEND_MAX

\* A reply whose only piece is a product name in the wrong case: success
\* with no recommendation, from a catalog that holds the product.
C13_WitnessNoMatch ==
    /\ last.op = "recommend"
    /\ last.status = 200
    /\ products # <<>>
    /\ Len(last.tokens) = 1
    /\ last.tokens[1].core = lowercase(NAME_CryptoPhoneProX)
    /\ last.out[1].recommendations = <<>>

\* A reply naming a product outside the requested category.
C13_WitnessCategory ==
    /\ last.op = "recommend"
    /\ last.status = 200
    /\ last.category = <<"phones">>
    /\ Len(last.tokens) = 2
    /\ last.tokens[1].core = NAME_BlockChainLaptopElite
    /\ last.tokens[2].core = NAME_SecurePhoneMini
    /\ Len(last.out[1].recommendations) = 1

\* C14: seed_data run without another seed_data in between: on an empty
\* catalog it inserts the SEED_COUNT fixed products, each with an id of its
\* own, and reports that count; on a non-empty catalog it changes nothing and
\* answers that the database is already seeded; so after any number of them
\* from an empty catalog the catalog holds exactly SEED_COUNT products.
C14_SeedOnce ==
    [][last'.op = "seed" =>
          /\ last'.status = 200
          /\ IF products = <<>>
             THEN /\ Len(products') = SEED_COUNT
                  /\ Unkeyed(products') = seed_products
                  /\ \A i, j \in 1..Len(products') :
                        products'[i].id = products'[j].id => i = j
                  /\ last'.detail = "Seeded products"
                  /\ last'.out = <<SEED_COUNT>>
             ELSE /\ products' = products
                  /\ last'.detail = "Database already seeded"
          /\ Len(products') = SEED_COUNT
      ]_vars

\* A seed_data on the catalog a seed_data has filled.
C14_Witness ==
    /\ last.op = "seed"
    /\ last.detail = "Database already seeded"
    /\ Len(products) = SEED_COUNT

\* The seed_data that fills the catalog.
C14_WitnessFirst ==
    /\ last.op = "seed"
    /\ last.detail = "Seeded products"
    /\ Len(products) = SEED_COUNT

----------------------------------------------------------------------------
(* get_cart and add_to_cart with their awaits as interleaving points:
   between the lookup (await db.carts.find_one) and the write (await
   db.carts.insert_one or update_one) other requests run. *)

\* What a find_one result shows of the cart
Seen(found) ==
    IF found = <<>> THEN NoCart ELSE [exists |-> TRUE, items |-> found[1].items]

\* add_to_cart's write computed from the collection as it is at the write
add_to_cart_write_fresh(cs, uid, found, item) == add_to_cart_store(cs, uid, item)

\* add_to_cart's write for the cart its lookup returned: insert_one of a
\* new cart when it found none, update_one with the merged list otherwise
add_to_cart_write(cs, uid, found, item) ==
    IF found = <<>>
    THEN insert_one(cs, cart_doc(uid, <<item>>))
    ELSE update_one_items(cs, uid, add_items(found[1].items, item))

\* The quantities of the add_to_cart requests suspended before their write
RECURSIVE PendingQty(_)
PendingQty(S) ==
    IF S = {} THEN 0
    ELSE LET s == CHOOSE x \in S : TRUE
         IN  (IF inflight[s].pc = "add_write"
              THEN Abs(inflight[s].item.quantity) ELSE 0)
             + PendingQty(S \ {s})

\* The quantities added by the add_to_cart requests completed so far
RECURSIVE AddedQty(_)
AddedQty(S) ==
    IF S = {} THEN 0
    ELSE LET k == CHOOSE x \in S : TRUE
         IN  (IF added[k[1]][k[2]] = <<>> THEN 0 ELSE Abs(added[k[1]][k[2]][1]))
             + AddedQty(S \ {k})

\* A request is taken by the first slot that holds none
FreeSlot(s) ==
    /\ inflight[s].pc = "idle"
    /\ \A t \in Slots : t < s => inflight[t].pc # "idle"

\* get_cart up to its insert: the lookup, and the response when it finds
\* the cart; otherwise the request is suspended before insert_one.
GetCartFind(s, tk) ==
    /\ FreeSlot(s)
    /\ LET a == get_current_user(tk, now)
           found == find_one(carts, "user_id", a.user_id)
       IN  IF a.status # 200
           THEN /\ last' = AuthFailure("get_cart", tk, a)
                /\ UNCHANGED inflight
           ELSE IF found # <<>>
           THEN /\ last' = [Called("get_cart", tk, a.user_id) EXCEPT
                               !.pre = CartOf(carts, a.user_id),
                               !.read = Seen(found),
                               !.out = found[1].items]
                /\ UNCHANGED inflight
           ELSE /\ inflight' = [inflight EXCEPT ![s] =
                                   [pc |-> "cart_insert", token |-> tk,
                                    user |-> a.user_id]]
                /\ UNCHANGED last
    /\ UNCHANGED <<users, carts, orders, issued, now, added, products>>

\* get_cart from its insert on
GetCartInsert(s) ==
    /\ inflight[s].pc = "cart_insert"
    /\ carts' = insert_one(carts, cart_doc(inflight[s].user, <<>>))
    /\ last' = [Called("get_cart", inflight[s].token, inflight[s].user) EXCEPT
                   !.pre = CartOf(carts, inflight[s].user),
                   !.out = <<>>]
    /\ inflight' = [inflight EXCEPT ![s] = Idle]
    /\ UNCHANGED <<users, orders, issued, now, added, products>>

\* add_to_cart up to its write: the lookup
AddToCartFind(s, tk, item) ==
    /\ FreeSlot(s)
    /\ AddedQty(UserIds \X Products) + PendingQty(Slots) + Abs(item.quantity)
          <= MaxQty
    /\ LET a == get_current_user(tk, now)
       IN  IF a.status # 200
           THEN /\ last' = AuthFailure("add_to_cart", tk, a)
                /\ UNCHANGED inflight
           ELSE /\ inflight' = [inflight EXCEPT ![s] =
                                   [pc |-> "add_write", token |-> tk,
                                    user |-> a.user_id, item |-> item,
                                    found |-> find_one(carts, "user_id",
                                                       a.user_id)]]
                /\ UNCHANGED last
    /\ UNCHANGED <<users, carts, orders, issued, now, added, products>>

\* add_to_cart from its write on
AddToCartWrite(s) ==
    /\ inflight[s].pc = "add_write"
    /\ LET r == inflight[s]
       IN  /\ carts' = add_to_cart_write(carts, r.user, r.found, r.item)
           /\ added' = [added EXCEPT ![r.user][r.item.product_id] =
                           IF @ = <<>> THEN <<r.item.quantity>>
                           ELSE <<@[1] + r.item.quantity>>]
           /\ last' = [Called("add_to_cart", r.token, r.user) EXCEPT
                          !.pre = CartOf(carts, r.user),
                          !.read = Seen(r.found),
                          !.product = r.item.product_id,
                          !.qty = r.item.quantity,
                          !.detail = "Item added to cart"]
    /\ inflight' = [inflight EXCEPT ![s] = Idle]
    /\ UNCHANGED <<users, orders, issued, now, products>>

\* get_cart and add_to_cart of the registered clients, interleaved at their
\* awaits.
NextCartRace ==
    \/ \E s \in Slots, tk \in IssuedTokens : GetCartFind(s, tk)
    \/ \E s \in Slots : GetCartInsert(s)
    \/ \E s \in Slots, tk \in IssuedTokens :
          AddToCartFind(s, tk, CartItem("p1", 1))
    \/ \E s \in Slots : AddToCartWrite(s)

SpecCartRace == InitShop /\ [][NextCartRace]_vars

----------------------------------------------------------------------------
(* Cart claims on interleaved requests, under SpecCartRace *)

\* The cart documents of user u
CartsOf(u) == {i \in 1..Len(carts) : carts[i].user_id = u}

\* The quantity an item list holds of product p
RECURSIVE QtyOf(_, _)
QtyOf(items, p) ==
    IF items = <<>> THEN 0
    ELSE (IF items[1].product_id = p THEN items[1].quantity ELSE 0)
         + QtyOf(Tail(items), p)

\* C15: db.carts holds at most one cart document per user, whatever the
\* interleaving of the get_cart and add_to_cart requests of a user who has
\* no cart.
C15_OneCartPerUser == \A u \in UserIds : Cardinality(CartsOf(u)) <= 1

\* C16: the write of an add_to_cart request whose lookup found the cart
\* sets the cart's items to the list the lookup returned with the request's
\* item merged in, whatever has been written to the cart since the lookup;
\* so when two requests of a user read the cart before either writes, the
\* second write leaves a cart without the first's addition.
C16_WriteFromRead ==
    [][\A s \in Slots :
          (inflight[s].pc = "add_write" /\ inflight'[s].pc = "idle"
           /\ inflight[s].found # <<>>) =>
              LET r == inflight[s]
                  after == CartOf(carts', r.user).items
                  seen == r.found[1].items
              IN  \A p \in Products :
                     QtyOf(after, p) =
                        QtyOf(seen, p)
                        + (IF p = r.item.product_id THEN r.item.quantity ELSE 0)
      ]_vars

\* Two add_to_cart requests of a user have both read the user's one cart
\* before either wrote, both have written, and the cart holds the quantity
\* of one of them only.
C16_Witness ==
    /\ last.op = "add_to_cart"
    /\ last.status = 200
    /\ Pending = {}
    /\ Cardinality(CartsOf(last.user)) = 1
    /\ last.read.exists
    /\ last.read.items = <<>>
    /\ last.pre.items # last.read.items
    /\ added[last.user]["p1"] = <<2>>
    /\ QtyOf(CartOf(carts, last.user).items, "p1") = 1

----------------------------------------------------------------------------
(* Cart quantities *)

\* CartItem.quantity is declared int, with no constraint: the values a
\* request body can carry include zero and the negative ones
SubmittedQuantities == {-1, 0, 1}

\* The cart routes and create_order, every request run to completion before
\* the next starts, add_to_cart called with every submitted quantity.
NextQuantity ==
    \/ \E tk \in IssuedTokens, q \in SubmittedQuantities :
          AddItem(tk, CartItem("p1", q))
    \/ \E tk \in IssuedTokens : RemoveItem(tk, "p1")
    \/ \E tk \in IssuedTokens : ClearCart(tk)
    \/ \E tk \in IssuedTokens :
          CreateOrder(tk, <<CartItem("p1", 1)>>, 10, "card", "None")

SpecQuantity == InitShop /\ [][NextQuantity]_vars

\* C17: every line of every cart has a quantity of at least 1.
C17_PositiveQuantities ==
    \A i \in 1..Len(carts) :
        \A k \in 1..Len(carts[i].items) : carts[i].items[k].quantity >= 1

====
